---- MODULE Spec2Model ----
(***************************************************************************)
(* Model of the parallel media-to-collage pipeline of                      *)
(* src/utils/image_processor.py (class ImageProcessor).                    *)
(*                                                                         *)
(* One batch run of generate_collages_parallel is modelled: the calling    *)
(* thread submits one job per post to a ThreadPoolExecutor, the pool's     *)
(* workers run process_post_collage, the calling thread collects the       *)
(* futures in completion order and finally attaches collage_path to every  *)
(* post.  The output directory is modelled as far as jobs touch it: the    *)
(* temporary video file and the collage files.  File semantics are those   *)
(* of a POSIX file system (a removed path leaves open handles writing to   *)
(* an unlinked file).                                                      *)
(***************************************************************************)
EXTENDS Integers, Sequences, FiniteSets, TLC

\* ---------------------------------------------------------------- bounds
MaxPosts == 2          \* largest batch explored
MaxWorkers == 2        \* largest max_workers explored
MaxImages == 11        \* most image URLs of a post explored
MaxTotalFrames == 100  \* largest frame count of a video explored
MaxCaption == 202      \* longest caption explored

\* ------------------------------------------------------ program constants
NumFrames == 9         \* create_video_collage: num_frames=9
ImgWidth == 400
ImgHeight == 400
TextBand == 150
MaxGridCells == 9      \* frames[:9]
CaptionBudget == 200   \* caption[:200]

output_dir == "output/collages"
None == <<>>           \* Python None where a path is expected

\* Python indices: range(n)
Range(n) == 0 .. (n - 1)

Min(a, b) == IF a < b THEN a ELSE b

\* ------------------------------------------------------------ path names
DigitChar(d) == CASE d = 0 -> "0" [] d = 1 -> "1" [] d = 2 -> "2" [] d = 3 -> "3"
                  [] d = 4 -> "4" [] d = 5 -> "5" [] d = 6 -> "6" [] d = 7 -> "7"
                  [] d = 8 -> "8" [] d = 9 -> "9"

RECURSIVE Str(_)
\* str(n) of a non-negative int, as the f-string formats it
Str(n) == IF n < 10 THEN <<DigitChar(n)>>
          ELSE Str(n \div 10) \o <<DigitChar(n % 10)>>

\* os.path.join(self.output_dir, name)
PathJoin(dir, name) == <<dir, "/">> \o name

\* the bug of numbering every post alike
VideoCollageNameUnnumbered(post_num) == <<"post_">> \o <<"_video_collage.jpg">>
\* f"post_{post_num}_video_collage.jpg"
VideoCollageName(post_num) == <<"post_">> \o Str(post_num) \o <<"_video_collage.jpg">>

\* f"post_{post_num}_collage.jpg"
ImageCollageName(post_num) == <<"post_">> \o Str(post_num) \o <<"_collage.jpg">>

\* os.path.join(self.output_dir, "temp_video.mp4")
temp_video_path == PathJoin(output_dir, <<"temp_video.mp4">>)

\* ------------------------------------------------------------ the inputs
\* A video URL together with what fetching and decoding it yields:
\*   fetch    "ok" | "neterr" (requests.get / raise_for_status raises)
\*            | "streamerr" (iter_content raises) | "empty" (no bytes)
\*   opens    cap.isOpened()
\*   total    CAP_PROP_FRAME_COUNT
\*   readable the frame positions at which cap.read() returns ret = True
\*   raiseAt  the frame position at which decoding raises, -1 for none
Video(fetch, opens, total, readable, raiseAt) ==
    [fetch |-> fetch, opens |-> opens, total |-> total,
     readable |-> readable, raiseAt |-> raiseAt]

VideoGood      == Video("ok", TRUE, 2, {0, 1}, -1)
VideoUnreach   == Video("neterr", TRUE, 2, {0, 1}, -1)
VideoStreamErr == Video("streamerr", TRUE, 2, {0, 1}, -1)
VideoEmpty     == Video("empty", FALSE, 0, {}, -1)
VideoNoOpen    == Video("ok", FALSE, 0, {}, -1)
VideoZero      == Video("ok", TRUE, 0, {}, -1)
VideoPartial   == Video("ok", TRUE, 2, {1}, -1)
VideoRaises    == Video("ok", TRUE, 2, {0, 1}, 1)

\* An image URL: ok = the GET succeeds and the bytes decode
ImageUrl(ok) == [ok |-> ok]

\* A post as process_posts builds it, with what happens to its job.
\* faults = TRUE: the worker is hit by an unexpected fault (MemoryError and
\* the like) before process_post_collage has entered its try block (lines
\* 414-416, 372).
\* saveOk = FALSE: collage.save raises (disk full, unwritable directory).
Post(faults, type, videos, images, saveOk) ==
    [faults |-> faults, type |-> type, videos |-> videos, images |-> images,
     caption |-> <<"a", ".">>,
     saveOk |-> saveOk, has_collage_path |-> FALSE, collage_path |-> None]

\* a caption of n characters
Caption(n) == [k \in 1 .. n |-> IF k % 3 = 0 THEN "." ELSE "a"]

\* post p with the caption c
WithCaption(p, c) == [p EXCEPT !.caption = c]

Thumb == <<ImageUrl(TRUE)>>

\* The kinds of post that differ in the steps they take on the shared state
\* (the pool and the output directory); batches are built from these
PostKinds ==
    { Post(FALSE, "Video", <<VideoGood>>, Thumb, TRUE),
      Post(FALSE, "Video", <<VideoUnreach>>, Thumb, TRUE),
      Post(FALSE, "Video", <<VideoStreamErr>>, Thumb, TRUE),
      Post(FALSE, "Video", <<VideoEmpty>>, Thumb, TRUE),
      Post(FALSE, "Video", <<VideoNoOpen>>, Thumb, TRUE),
      Post(FALSE, "Video", <<VideoRaises>>, Thumb, TRUE),
      Post(FALSE, "Video", <<>>, Thumb, TRUE),
      Post(FALSE, "Image", <<>>, <<ImageUrl(FALSE), ImageUrl(TRUE)>>, TRUE),
      Post(FALSE, "Sidecar", <<>>, <<ImageUrl(TRUE)>>, FALSE),
      Post(TRUE, "Image", <<>>, <<ImageUrl(TRUE)>>, TRUE) }

\* Further kinds, which take the same steps on the shared state as one of
\* PostKinds and differ in their own data only; explored as batches of one
SinglePostKinds ==
    PostKinds \cup
    { Post(FALSE, "Video", <<VideoZero>>, Thumb, TRUE),
      Post(FALSE, "Video", <<VideoPartial>>, Thumb, TRUE),
      Post(FALSE, "Image", <<>>, <<ImageUrl(TRUE)>>, TRUE),
      Post(FALSE, "Image", <<>>, <<>>, TRUE),
      Post(FALSE, "Video", <<VideoGood, VideoNoOpen>>, Thumb, TRUE),
      Post(FALSE, "Video", <<VideoUnreach, VideoGood>>, Thumb, TRUE),
      Post(FALSE, "Reel", <<VideoGood>>, Thumb, TRUE) }

\* n image URLs, those at the positions bad failing
Urls(n, bad) == [k \in 1 .. n |-> ImageUrl((k - 1) \notin bad)]

\* a downloadable video of total frames, all of them or the even ones readable
Clip(total, readable) == Video("ok", TRUE, total, readable, -1)

\* The posts explored one at a time: every number of image URLs and every
\* frame count up to the bounds
SoloKinds ==
    SinglePostKinds
    \cup { Post(FALSE, type, <<>>, Urls(n, bad), TRUE) :
             type \in {"Image", "Sidecar"}, n \in 1 .. MaxImages,
             bad \in {{}, {0}, {1, 3}} }
    \cup { Post(FALSE, "Image", <<>>, Urls(n, Range(n)), TRUE) : n \in 1 .. MaxImages }
    \cup { Post(FALSE, "Video", <<Clip(total, Range(total))>>, Thumb, TRUE) :
             total \in 0 .. MaxTotalFrames }
    \cup { Post(FALSE, "Video", <<Clip(total, {f \in Range(total) : f % 2 = 0})>>,
                 Thumb, TRUE) : total \in 0 .. MaxTotalFrames }
    \cup { WithCaption(Post(FALSE, "Image", <<>>, <<ImageUrl(TRUE)>>, TRUE), Caption(n)) :
             n \in 0 .. MaxCaption }
    \cup { WithCaption(Post(FALSE, "Video", <<VideoGood>>, Thumb, TRUE), Caption(n)) :
             n \in 0 .. MaxCaption }

\* the batches of n posts that are explored
Batches(n) == [Range(n) -> IF n = 1 THEN SinglePostKinds ELSE PostKinds]

\* ------------------------------------------------------- pure functions
\* a sampler that steps by the whole quotient total // num
FrameIndicesStride(total_frames, num_frames) ==
    [k \in 1 .. num_frames |-> (k - 1) * (total_frames \div num_frames)]
\* a sampler that rounds to the nearest index
FrameIndicesRounded(total_frames, num_frames) ==
    [k \in 1 .. num_frames |->
        IF num_frames = 1 THEN 0
        ELSE (2 * (k - 1) * (total_frames - 1) + (num_frames - 1))
             \div (2 * (num_frames - 1))]
\* np.linspace(0, total_frames - 1, num_frames, dtype=int): the k-th value
\* k * (total-1) / (num-1), truncated towards zero (exact for num <= 9:
\* the step is a multiple of 1/8 or equals 1)
FrameIndices(total_frames, num_frames) ==
    [k \in 1 .. num_frames |->
        IF num_frames = 1 THEN 0
        ELSE ((k - 1) * (total_frames - 1)) \div (num_frames - 1)]

RECURSIVE ReadFramesAbort(_, _, _)
\* a loop that stops at the first frame that cannot be read
ReadFramesAbort(v, indices, frames) ==
    IF indices = <<>> THEN [frames |-> frames, raised |-> FALSE]
    ELSE IF Head(indices) = v.raiseAt THEN [frames |-> frames, raised |-> TRUE]
    ELSE IF Head(indices) \in v.readable
         THEN ReadFramesAbort(v, Tail(indices), Append(frames, Head(indices)))
         ELSE [frames |-> frames, raised |-> FALSE]

RECURSIVE ReadFrames(_, _, _)
\* the loop of lines 239-246 over frame_indices: a frame is appended when
\* cap.read() succeeds, and the loop is left when a call raises
ReadFrames(v, indices, frames) ==
    IF indices = <<>> THEN [frames |-> frames, raised |-> FALSE]
    ELSE IF Head(indices) = v.raiseAt THEN [frames |-> frames, raised |-> TRUE]
    ELSE IF Head(indices) \in v.readable
         THEN ReadFrames(v, Tail(indices), Append(frames, Head(indices)))
         ELSE ReadFrames(v, Tail(indices), frames)

\* a sampler that keeps the number of frames asked for
EffectiveFramesUnclamped(total_frames, num_frames) == num_frames
\* lines 233-234: if total_frames < num_frames: num_frames = total_frames
EffectiveFrames(total_frames, num_frames) ==
    IF total_frames < num_frames THEN total_frames ELSE num_frames

\* lines 222-246 on an opened container
SampleFrames(v, num_frames) ==
    LET n == EffectiveFrames(v.total, num_frames)
    IN  ReadFrames(v, FrameIndices(v.total, n), <<>>)

\* a grid that gets as wide as the number of images
GridColsWide(num_images) == IF num_images <= 3 THEN num_images ELSE 3
\* grid of create_image_collage, lines 118-128
GridCols(num_images) ==
    IF num_images = 1 THEN 1
    ELSE IF num_images = 2 THEN 2
    ELSE IF num_images <= 4 THEN 2
    ELSE 3

\* a grid as high as it is wide
GridRowsSquare(num_images) == GridCols(num_images)
GridRows(num_images) ==
    IF num_images = 1 THEN 1
    ELSE IF num_images = 2 THEN 1
    ELSE IF num_images <= 4 THEN 2
    ELSE IF num_images <= 6 THEN 2
    ELSE 3

\* a slice that keeps every element
TakeAll(lst, n) == lst
\* the first n elements of a list: lst[:n]
Take(lst, n) == SubSeq(lst, 1, Min(Len(lst), n))

\* a paste loop that fills the grid column by column
TilesColumnMajor(resized, grid_cols) ==
    [t \in 1 .. Len(resized) |->
        [src |-> resized[t],
         x |-> ((t - 1) \div grid_cols) * ImgWidth,
         y |-> ((t - 1) % grid_cols) * ImgHeight]]
\* the paste loop: tile idx (0-based) of the resized list lands at (x, y)
Tiles(resized, grid_cols) ==
    [t \in 1 .. Len(resized) |->
        [src |-> resized[t],
         x |-> ((t - 1) % grid_cols) * ImgWidth,
         y |-> ((t - 1) \div grid_cols) * ImgHeight]]

Ellipsis == <<".", ".", ".">>

\* a caption line that always carries the marker
CaptionPreviewMarked(caption) == Take(caption, CaptionBudget) \o Ellipsis
\* lines 166, 324: caption[:200] + "..." if len(caption) > 200 else caption
CaptionPreview(caption) ==
    IF Len(caption) > CaptionBudget THEN Take(caption, CaptionBudget) \o Ellipsis
    ELSE caption

\* lines 167-168, 325-326: if caption_preview: draw.text(...) -- the caption
\* line of the band, text being what follows its "Caption: " label
CaptionLine(caption) ==
    LET caption_preview == CaptionPreview(caption)
    IN  [drawn |-> caption_preview # <<>>, text |-> caption_preview]

\* the collage laid out by lines 130-178 (images) and 284-335 (frames)
Collage(path, by, content, grid_cols, grid_rows, caption) ==
    [path |-> path, by |-> by, cols |-> grid_cols, rows |-> grid_rows,
     width |-> grid_cols * ImgWidth,
     height |-> grid_rows * ImgHeight + TextBand,
     tiles |-> Tiles(Take(content, grid_cols * grid_rows), grid_cols),
     caption_line |-> CaptionLine(caption)]

Placeholder == -1      \* Image.new('RGB', (400, 400), color='gray')
NoImage == -2          \* None in the images buffer

\* ------------------------------------------------------------- the state
VARIABLES
    max_workers,    \* self.max_workers
    posts,          \* the batch: index -> post (Python list, indices 0..n-1)
    submitted,      \* number of executor.submit calls made so far
    job,            \* index -> the job submitted for that index
    tempFile,       \* what is at temp_video_path in the output directory
    collages,       \* the collage files in the output directory
    collage_paths,  \* the results buffer of generate_collages_parallel
    futures,        \* indices whose future as_completed has not yielded yet
    completed,      \* the progress counter
    slotWrites,     \* history: index -> the jobs whose result was stored there
    reordered,      \* history: a future was yielded before an earlier-submitted one
    mainpc          \* the calling thread: "run" | "returned"

vars == <<max_workers, posts, submitted, job, tempFile, collages,
          collage_paths, futures, completed, slotWrites, reordered, mainpc>>

NumPosts == Cardinality(DOMAIN posts)      \* len(posts)
Jobs == DOMAIN posts

\* a Python list as a Sequence: element idx (0-based) is at position idx + 1
ListGet(lst, idx) == lst[idx + 1]
ListSet(lst, idx, val) == [lst EXCEPT ![idx + 1] = val]

\* the temporary video file: absent.  data = the jobs whose bytes are in the
\* file
NoFile == [exists |-> FALSE, data |-> {}]

NewJob ==
    [pc |-> "new",          \* position of the worker in the job
     fut |-> "pending",     \* the future: "pending" | "result" | "exception"
     ret |-> None,          \* the collage_path returned by the job
     linked |-> FALSE,      \* the open 'wb' handle still is the file at the path
     frames |-> <<>>,       \* frames returned by extract_video_frames
     dl |-> <<>>,           \* download_with_index futures of the nested pool
     images |-> <<>>,       \* images buffer of download_images_parallel
     indices |-> <<>>,      \* frame_indices of extract_video_frames
     fetched |-> {},        \* history: the URLs the job requested
     wrote |-> None]        \* history: the collage path the job saved

\* the state when generate_collages_parallel is called with a batch
InitWith(batches) ==
    /\ max_workers \in 1 .. MaxWorkers
    /\ posts \in batches
    /\ submitted = 0
    /\ job = [i \in DOMAIN posts |-> NewJob]
    /\ tempFile = NoFile
    /\ collages = {}
    /\ collage_paths = [i \in 1 .. NumPosts |-> None]
    /\ futures = DOMAIN posts
    /\ completed = 0
    /\ slotWrites = [i \in DOMAIN posts |-> <<>>]
    /\ reordered = FALSE
    /\ mainpc = "run"

Init == \E n \in 0 .. MaxPosts : InitWith(Batches(n))

\* a batch of one post, of any of SoloKinds
SoloInit == InitWith([Range(1) -> SoloKinds])

\* ------------------------------------------------------- the thread pool
\* jobs a worker of the pool is executing
Executing == { i \in Jobs : job[i].pc \notin {"new", "queued", "done"} }

\* a pool that admits one job too many
WorkerAvailableOffByOne(n_busy, bound) == n_busy <= bound
\* a pool that keeps one worker back
WorkerAvailableOneLess(n_busy, bound) == n_busy < bound - 1
\* ThreadPoolExecutor(max_workers): a work item is taken only by one of at
\* most max_workers worker threads
WorkerAvailable(n_busy, bound) == n_busy < bound

\* the work queue is FIFO: the next item is the oldest queued one
NextQueued(state) ==
    { i \in DOMAIN state : /\ state[i] = "queued"
                           /\ \A h \in DOMAIN state : h < i => state[h] # "queued" }

\* an exception raised outside the try block (lines 372, 414-416): the
\* future holds the exception
Raise(j) == [j EXCEPT !.pc = "done", !.fut = "exception"]

\* a job that lets the exception escape
PropagateException(j) == Raise(j)
\* process_post_collage, lines 397-399: except Exception -> return None
OnJobException(j) == [j EXCEPT !.pc = "done", !.fut = "result", !.ret = None]

\* the job returns ret (process_with_index returns idx, ret)
Return(j, ret) == [j EXCEPT !.pc = "done", !.fut = "result", !.ret = ret]

\* extract_video_frames returns [] (lines 197, 205, 212, 220, 231), so
\* create_video_collage returns None (lines 280-282) and so does the job
NoFrames(j) == Return([j EXCEPT !.frames = <<>>], None)

\* os.remove(temp_video_path): open handles now write to an unlinked file
Unlink(jobs) == [i \in DOMAIN jobs |-> [jobs[i] EXCEPT !.linked = FALSE]]

\* --------------------------------------------------- the calling thread
\* lines 423-424: executor.submit(process_with_index, (idx, post))
Submit ==
    /\ mainpc = "run"
    /\ submitted < NumPosts
    /\ job' = [job EXCEPT ![submitted].pc = "queued"]
    /\ submitted' = submitted + 1
    /\ UNCHANGED <<max_workers, posts, tempFile, collages, collage_paths,
                   futures, completed, slotWrites, reordered, mainpc>>

\* the index of completion instead of the index of the post
CompletionIndex(idx, count) == count
\* lines 417, 429: the job returns the idx it was submitted with
ResultIndex(idx, count) == idx

\* a future that stays in the set as_completed iterates over
YieldedAgain(futs, i) == futs
\* as_completed yields every future once
Yielded(futs, i) == futs \ {i}

\* lines 427-434: as_completed yields a finished future; its result is
\* stored at the index the job returned, an exception is only logged
Collect(i) ==
    /\ mainpc = "run"
    /\ submitted = NumPosts
    /\ i \in futures
    /\ job[i].fut # "pending"
    /\ futures' = Yielded(futures, i)
    /\ reordered' = (reordered \/ \E h \in futures : h < i)
    /\ IF job[i].fut = "result"
       THEN LET idx == ResultIndex(i, completed)
            IN  /\ collage_paths' = ListSet(collage_paths, idx, job[i].ret)
                /\ completed' = completed + 1
                /\ slotWrites' = [slotWrites EXCEPT ![idx] = Append(@, i)]
       ELSE UNCHANGED <<collage_paths, completed, slotWrites>>
    /\ UNCHANGED <<max_workers, posts, submitted, job, tempFile, collages, mainpc>>

\* a loop that is left while futures are outstanding
AsCompletedExhaustedEarly(futs) == TRUE
\* line 427: the as_completed loop ends when every future has been yielded
AsCompletedExhausted(futs) == futs = {}

\* a post rebuilt from its media and the path
WithCollagePathOnly(post, path) ==
    [post EXCEPT !.has_collage_path = TRUE, !.collage_path = path,
                 !.caption = <<>>]
\* line 438: post['collage_path'] = collage_paths[idx]
WithCollagePath(post, path) ==
    [post EXCEPT !.has_collage_path = TRUE, !.collage_path = path]

\* lines 436-441: the pool is shut down, collage_path is attached to every
\* post and the list is returned
Attach ==
    /\ mainpc = "run"
    /\ submitted = NumPosts
    /\ AsCompletedExhausted(futures)
    /\ posts' = [i \in DOMAIN posts |->
                   WithCollagePath(posts[i], ListGet(collage_paths, i))]
    /\ mainpc' = "returned"
    /\ UNCHANGED <<max_workers, submitted, job, tempFile, collages,
                   collage_paths, futures, completed, slotWrites, reordered>>

\* ------------------------------------------------------------ the jobs
\* line 375: post_type == 'Video' and post_data.get('videos')
IsVideoPost(p) == p.type = "Video" /\ p.videos # <<>>

\* a dispatch that takes any post with images down the image path
IsImagePostAnyType(p) == p.images # <<>>
\* line 386: post_type in ['Image', 'Sidecar'] and post_data.get('images')
IsImagePost(p) == p.type \in {"Image", "Sidecar"} /\ p.images # <<>>

\* a job that takes the last video of the post
VideoUrlIndexLast(videos) == Len(videos) - 1
\* line 377: post_data['videos'][0]['url']
VideoUrlIndex(videos) == 0

\* the video whose URL the job of post p downloads
VideoOf(p) == ListGet(p.videos, VideoUrlIndex(p.videos))

\* a handler that leaves the file where it is
OnDownloadErrorKeep(f) == f
\* download_video, lines 62-66: except Exception -> the file at the path is
\* removed if there is one
OnDownloadError(f) == NoFile

\* a worker takes job i off the queue: process_with_index, then lines
\* 372-395 of process_post_collage choose the path
Start(i) ==
    /\ i \in NextQueued([h \in Jobs |-> job[h].pc])
    /\ WorkerAvailable(Cardinality(Executing), max_workers)
    /\ LET p == posts[i]
       IN  job' = [job EXCEPT ![i] =
             IF p.faults THEN Raise(@)
             ELSE IF IsVideoPost(p)
               THEN [@ EXCEPT !.pc = "v_request"]
             ELSE IF IsImagePost(p)
               THEN [@ EXCEPT !.pc = "i_download",
                              !.images = [k \in 1 .. Len(p.images) |-> NoImage],
                              !.dl = [k \in 1 .. Len(p.images) |-> "queued"]]
             ELSE Return(@, None)]
    /\ UNCHANGED <<max_workers, posts, submitted, tempFile, collages,
                   collage_paths, futures, completed, slotWrites, reordered, mainpc>>

\* download_video, lines 43-47: the URL of the first video is requested
\* and, once the response is there, open(output_path, 'wb') creates or
\* truncates the file; when the request raises, the handler of lines 62-66
\* removes the file at the path
VRequest(i) ==
    /\ job[i].pc = "v_request"
    /\ LET url == <<"video", VideoUrlIndex(posts[i].videos)>>
       IN  IF VideoOf(posts[i]).fetch = "neterr"
           THEN /\ tempFile' = OnDownloadError(tempFile)
                /\ job' = [Unlink(job) EXCEPT
                             ![i] = NoFrames([@ EXCEPT !.fetched = @ \cup {url}])]
           ELSE /\ tempFile' = [exists |-> TRUE, data |-> {}]
                /\ job' = [job EXCEPT ![i].pc = "v_write", ![i].linked = TRUE,
                                      ![i].fetched = @ \cup {url}]
    /\ UNCHANGED <<max_workers, posts, submitted, collages,
                   collage_paths, futures, completed, slotWrites, reordered, mainpc>>

\* download_video, lines 48-51 (and the handler when the stream raises):
\* the body is written through the handle
VWrite(i) ==
    /\ job[i].pc = "v_write"
    /\ LET fetch == VideoOf(posts[i]).fetch
       IN  IF fetch = "streamerr"
           THEN /\ tempFile' = OnDownloadError(tempFile)
                /\ job' = [Unlink(job) EXCEPT ![i] = NoFrames(@)]
           ELSE /\ tempFile' = IF fetch = "ok" /\ job[i].linked
                               THEN [tempFile EXCEPT !.data = @ \cup {i}]
                               ELSE tempFile
                /\ job' = [job EXCEPT ![i].pc = "v_verify", ![i].linked = FALSE]
    /\ UNCHANGED <<max_workers, posts, submitted, collages,
                   collage_paths, futures, completed, slotWrites, reordered, mainpc>>

\* download_video, lines 55-60, and extract_video_frames, lines 195-212:
\* os.path.exists and os.path.getsize are asked of the path by
\* download_video and again by extract_video_frames.  The two looks are one
\* step: a change of the file between them has the effect of the same
\* change between this step and the opening of the container by FDecode
\* (the job ends with no frames).
VVerify(i) ==
    /\ job[i].pc = "v_verify"
    /\ job' = [job EXCEPT ![i] =
                 IF tempFile.exists /\ tempFile.data # {}
                 THEN [@ EXCEPT !.pc = "f_decode"]
                 ELSE NoFrames(@)]
    /\ UNCHANGED <<max_workers, posts, submitted, tempFile, collages,
                   collage_paths, futures, completed, slotWrites, reordered, mainpc>>

\* what cv2.VideoCapture(path) gets to read: the video of the one job that
\* wrote the file, any of them or garbage (-1) when several wrote into it,
\* nothing (-1) when the file is gone or empty
Readable(f) ==
    IF ~f.exists \/ f.data = {} THEN {-1}
    ELSE IF Cardinality(f.data) = 1 THEN f.data
    ELSE f.data \cup {-1}

\* extract_video_frames, lines 215-250: open the container, count, sample
FDecode(i) ==
    /\ job[i].pc = "f_decode"
    /\ \E src \in Readable(tempFile) :
         IF src = -1 \/ ~VideoOf(posts[src]).opens
            \/ VideoOf(posts[src]).total = 0
         THEN job' = [job EXCEPT ![i] = NoFrames(@)]
         ELSE LET v == VideoOf(posts[src])
                  r == SampleFrames(v, NumFrames)
              IN  job' = [job EXCEPT
                            ![i].pc = IF r.raised THEN "v_compose" ELSE "f_cleanup",
                            ![i].indices = FrameIndices(v.total,
                                                        EffectiveFrames(v.total, NumFrames)),
                            ![i].frames = r.frames]
    /\ UNCHANGED <<max_workers, posts, submitted, tempFile, collages,
                   collage_paths, futures, completed, slotWrites, reordered, mainpc>>

\* extract_video_frames, lines 252-254: remove the temporary file
FCleanup(i) ==
    /\ job[i].pc = "f_cleanup"
    /\ tempFile' = NoFile
    /\ job' = [Unlink(job) EXCEPT ![i].pc = "v_compose"]
    /\ UNCHANGED <<max_workers, posts, submitted, collages,
                   collage_paths, futures, completed, slotWrites, reordered, mainpc>>

\* a save that writes nothing
SaveNothing(files, c) == files
\* collage.save(output_path): the file at the path is replaced
Save(files, c) == { f \in files : f.path # c.path } \cup {c}

\* a video collage whose grid follows the table of the image collage
VideoGridColsByCount(num_frames) == GridCols(num_frames)
VideoGridRowsByCount(num_frames) == GridRows(num_frames)
\* create_video_collage, line 285: grid_cols, grid_rows = 3, 3
VideoGridCols(num_frames) == 3
VideoGridRows(num_frames) == 3

\* create_video_collage, lines 280-335
VCompose(i) ==
    /\ job[i].pc = "v_compose"
    /\ LET path == PathJoin(output_dir, VideoCollageName(i + 1))
       IN  IF job[i].frames = <<>>
           THEN /\ job' = [job EXCEPT ![i] = Return(@, None)]
                /\ UNCHANGED collages
           ELSE IF posts[i].saveOk
           THEN /\ collages' = Save(collages,
                                    Collage(path, i, Take(job[i].frames, MaxGridCells),
                                            VideoGridCols(Len(job[i].frames)),
                                            VideoGridRows(Len(job[i].frames)),
                                            posts[i].caption))
                /\ job' = [job EXCEPT ![i] = Return([@ EXCEPT !.wrote = path], path)]
           ELSE /\ job' = [job EXCEPT ![i] = OnJobException(@)]
                /\ UNCHANGED collages
    /\ UNCHANGED <<max_workers, posts, submitted, tempFile,
                   collage_paths, futures, completed, slotWrites, reordered, mainpc>>

\* a download that hands the failure on as None
DownloadImageOrNone(urls, idx) == IF ListGet(urls, idx).ok THEN idx ELSE NoImage
\* download_image, lines 27-34: the image of URL idx, or the placeholder
DownloadImage(urls, idx) == IF ListGet(urls, idx).ok THEN idx ELSE Placeholder

\* downloads that take their threads from the pool the job runs in
PoolLoadShared(n_downloading, n_executing) == n_downloading + n_executing
\* line 84: with ThreadPoolExecutor(max_workers=self.max_workers): the
\* downloads of a job have a pool of their own, which only they load
PoolLoad(n_downloading, n_executing) == n_downloading

\* an image stored at the position of its completion
DownloadIndexByCompletion(idx, count) == count
\* lines 88-90: idx, img = future.result(); images[idx] = img
DownloadIndex(idx, count) == idx

\* download_images_parallel, lines 84-86: a worker of the job's own pool
\* takes the download of URL k - 1 off the queue
DlStart(i, k) ==
    /\ job[i].pc = "i_download"
    /\ k \in NextQueued(job[i].dl)
    /\ WorkerAvailable(PoolLoad(Cardinality({d \in DOMAIN job[i].dl :
                                                job[i].dl[d] = "running"}),
                                Cardinality(Executing)),
                       max_workers)
    /\ job' = [job EXCEPT ![i].dl[k] = "running",
                          ![i].fetched = @ \cup {<<"image", k - 1>>}]
    /\ UNCHANGED <<max_workers, posts, submitted, tempFile, collages,
                   collage_paths, futures, completed, slotWrites, reordered, mainpc>>

\* download_with_index returns and lines 88-91 store the image at its idx
DlFinish(i, k) ==
    /\ job[i].pc = "i_download"
    /\ job[i].dl[k] = "running"
    /\ job' = [job EXCEPT ![i].dl[k] = "done",
                          ![i].images =
                              ListSet(@, DownloadIndex(k - 1,
                                           Cardinality({d \in DOMAIN job[i].dl :
                                                          job[i].dl[d] = "done"})),
                                      DownloadImage(posts[i].images, k - 1))]
    /\ UNCHANGED <<max_workers, posts, submitted, tempFile, collages,
                   collage_paths, futures, completed, slotWrites, reordered, mainpc>>

\* create_image_collage, lines 117-178, once the nested pool has shut down
ICompose(i) ==
    /\ job[i].pc = "i_download"
    /\ \A k \in DOMAIN job[i].dl : job[i].dl[k] = "done"
    /\ LET images == job[i].images
           num_images == Len(images)
           grid_cols == GridCols(num_images)
           grid_rows == GridRows(num_images)
           placed == Take(images, grid_cols * grid_rows)
           path == PathJoin(output_dir, ImageCollageName(i + 1))
       IN  IF (\E t \in DOMAIN placed : placed[t] = NoImage) \/ ~posts[i].saveOk
           THEN /\ job' = [job EXCEPT ![i] = OnJobException(@)]
                /\ UNCHANGED collages
           ELSE /\ collages' = Save(collages,
                                    Collage(path, i, images, grid_cols, grid_rows,
                                            posts[i].caption))
                /\ job' = [job EXCEPT ![i] = Return([@ EXCEPT !.wrote = path], path)]
    /\ UNCHANGED <<max_workers, posts, submitted, tempFile,
                   collage_paths, futures, completed, slotWrites, reordered, mainpc>>

\* ------------------------------------------------------ the specification
Next ==
    \/ Submit
    \/ Attach
    \/ \E i \in Jobs : Collect(i)
    \/ \E i \in Jobs : Start(i)
    \/ \E i \in Jobs : VRequest(i)
    \/ \E i \in Jobs : VWrite(i)
    \/ \E i \in Jobs : VVerify(i)
    \/ \E i \in Jobs : FDecode(i)
    \/ \E i \in Jobs : FCleanup(i)
    \/ \E i \in Jobs : VCompose(i)
    \/ \E i \in Jobs : \E k \in DOMAIN job[i].dl : DlStart(i, k)
    \/ \E i \in Jobs : \E k \in DOMAIN job[i].dl : DlFinish(i, k)
    \/ \E i \in Jobs : ICompose(i)

Spec == Init /\ [][Next]_vars

\* every thread that can take a step eventually takes one
FairSpec == Spec /\ WF_vars(Next)

\* one post at a time, over every input size up to the bounds
SoloSpec == SoloInit /\ [][Next]_vars

TypeOK ==
    /\ max_workers \in 1 .. MaxWorkers
    /\ submitted \in 0 .. NumPosts
    /\ futures \subseteq Jobs
    /\ mainpc \in {"run", "returned"}

\* ----------------------------------------------------------- properties
Returned == mainpc = "returned"

\* what generate_collages_parallel records for job i: the path it returned,
\* None when its future raised
Recorded(i) == IF job[i].fut = "result" THEN job[i].ret ELSE None

\* the result of job i when it runs with no other job beside it (the run
\* with max_workers = 1): download, sample, compose on its own inputs
SequentialResult(i) ==
    LET p == posts[i]
    IN  IF p.faults THEN None
        ELSE IF p.type = "Video" /\ p.videos # <<>>
        THEN LET v == Head(p.videos)
             IN  IF /\ v.fetch = "ok" /\ v.opens /\ v.total > 0
                    /\ SampleFrames(v, NumFrames).frames # <<>>
                    /\ p.saveOk
                 THEN PathJoin(output_dir, VideoCollageName(i + 1))
                 ELSE None
        ELSE IF p.type \in {"Image", "Sidecar"} /\ p.images # <<>>
        THEN IF p.saveOk THEN PathJoin(output_dir, ImageCollageName(i + 1))
             ELSE None
        ELSE None

\* the run with one worker gives every post its sequential result
SequentialRunIsSequential ==
    (Returned /\ max_workers = 1) =>
        \A i \in Jobs : posts[i].collage_path = SequentialResult(i)

\* C1: when the batch returns, the list has the length of the input and
\* the collage_path of the post at position i is the result of the job
\* submitted for position i, whatever the completion order was
C1_OrderPreserved ==
    Returned =>
        /\ DOMAIN posts = DOMAIN job
        /\ \A i \in Jobs : /\ posts[i].has_collage_path
                           /\ posts[i].collage_path = Recorded(i)

\* C1 witness: a batch returned whose second job was collected before its
\* first one, both with a collage
C1_Witness ==
    /\ Returned
    /\ NumPosts >= 2 /\ reordered
    /\ posts[0].collage_path # None /\ posts[1].collage_path # None
    /\ posts[0].collage_path # posts[1].collage_path

\* C2: the null/non-null outcome of every post of a returned batch is the
\* one of the sequential run, whatever max_workers and the interleaving
C2_SameOutcomeAsSequential ==
    Returned =>
        \A i \in Jobs : (posts[i].collage_path = None) <=> (SequentialResult(i) = None)

\* the paths in the output directory job i has under its hands: the
\* temporary video file from its open() to the end of sampling
FilesInUse(i) ==
    IF job[i].pc \in {"v_write", "v_verify", "f_decode", "f_cleanup"}
    THEN {temp_video_path} ELSE {}

\* C3: no two jobs ever have the same file of the output directory in use
C3_NoSharedFile ==
    \A i, j \in Jobs : i # j => FilesInUse(i) \cap FilesInUse(j) = {}

\* C4: the slot of index i is written at most once and only by job i, and
\* when the batch returns it holds the path job i returned, or None when
\* job i failed or faulted
C4_OneResultPerIndex ==
    /\ \A s \in Jobs : Len(slotWrites[s]) <= 1
    /\ \A s \in Jobs : \A k \in DOMAIN slotWrites[s] : slotWrites[s][k] = s
    /\ Len(collage_paths) = NumPosts
    /\ Returned => \A i \in Jobs : ListGet(collage_paths, i) = Recorded(i)

\* C4 witness: a returned batch with a faulted job and a job with a collage
C4_Witness ==
    /\ Returned
    /\ \E i, j \in Jobs : /\ job[i].fut = "exception"
                          /\ job[j].fut = "result" /\ job[j].ret # None

\* C5: when a job of a returned batch fails on its own inputs, its post has
\* collage_path None and every other post has its sequential result
C5_FaultIsolation ==
    Returned =>
        \A j \in Jobs : SequentialResult(j) = None =>
            /\ posts[j].collage_path = None
            /\ \A i \in Jobs \ {j} : posts[i].collage_path = SequentialResult(i)

\* C6: under fair scheduling every batch run returns
C6_BatchTerminates == <>Returned

\* C6 witness: a returned batch larger than the pool with an image job that
\* went through its nested download pool
C6_Witness ==
    /\ Returned
    /\ NumPosts > max_workers
    /\ \E i \in Jobs : job[i].dl # <<>> /\ job[i].ret # None

\* C7: process_post_collage never raises because a step inside it failed:
\* the future of a job holds an exception only when the worker was hit by
\* a fault before the try block; every other job returns a path or None
C7_JobNeverRaises ==
    \A i \in Jobs : ~posts[i].faults =>
        /\ job[i].fut # "exception"
        /\ job[i].pc = "done" => job[i].fut = "result"

\* C7 witness: jobs whose save step raised and whose video fetch raised
\* are done with result None
C7_Witness ==
    \E i, j \in Jobs :
        /\ job[i].pc = "done" /\ ~posts[i].saveOk /\ job[i].dl # <<>>
        /\ job[i].fut = "result" /\ job[i].ret = None
        /\ job[j].pc = "done" /\ posts[j].type = "Video" /\ posts[j].videos # <<>>
        /\ Head(posts[j].videos).fetch = "streamerr"
        /\ job[j].fut = "result" /\ job[j].ret = None

\* C8: one job per post is submitted, and at most max_workers jobs execute
\* at any moment, the others waiting in the queue
C8_BoundedConcurrency ==
    /\ Cardinality(Executing) <= max_workers
    /\ DOMAIN job = DOMAIN posts
    /\ submitted <= NumPosts
    /\ \A i \in Jobs : (job[i].pc = "new") <=> (i >= submitted)

\* C8 witness: the pool is full and a submitted job waits in the queue
C8_Witness ==
    /\ Cardinality(Executing) = max_workers
    /\ \E i \in Jobs : job[i].pc = "queued"

\* C9: the collage paths written by two distinct jobs differ, no collage
\* file is replaced by another job, and the name is the one of the
\* sequence number and of the path taken
C9_UniqueFilenames ==
    /\ \A i, j \in Jobs :
         (i # j /\ job[i].wrote # None /\ job[j].wrote # None)
            => job[i].wrote # job[j].wrote
    /\ \A i \in Jobs : job[i].wrote # None =>
         /\ \E c \in collages : c.path = job[i].wrote /\ c.by = i
         /\ i < 9 => job[i].wrote =
              <<"output/collages", "/", "post_", DigitChar(i + 1),
                IF posts[i].type = "Video" THEN "_video_collage.jpg"
                ELSE "_collage.jpg">>

\* C9 witness: two video jobs of one batch have both saved their collage
C9_Witness ==
    \E i, j \in Jobs :
        /\ i # j
        /\ posts[i].type = "Video" /\ posts[j].type = "Video"
        /\ job[i].wrote # None /\ job[j].wrote # None

\* C10: once every job is done, no temporary video file is left in the
\* output directory (each sampler call has deleted the file it wrote)
C10_TempFileDeleted ==
    (\A i \in Jobs : job[i].pc = "done") => ~tempFile.exists

\* ---------------------------------------------- the two paths of a job
\* post p goes down the video path / the image path (lines 375, 386)
VideoPath(p) == ~p.faults /\ p.type = "Video" /\ p.videos # <<>>
ImagePath(p) == ~p.faults /\ p.type \in {"Image", "Sidecar"} /\ p.images # <<>>

\* job i finishes in this step
Finishes(i) == job[i].pc # "done" /\ job'[i].pc = "done"

\* the collage files job i saved
CollagesOf(i) == { c \in collages : c.by = i }

\* C11: a Video post whose first video URL is unreachable (the request
\* raises, or the stream raises while the body is read) gets collage_path
\* None, and at the moment its job is done there is no file at the path of
\* the temporary video
C11_UnreachableVideo ==
    /\ [](\A i \in Jobs :
            (VideoPath(posts[i]) /\ Head(posts[i].videos).fetch \in {"neterr", "streamerr"})
            => /\ job[i].pc = "done" => (job[i].fut = "result" /\ job[i].ret = None)
               /\ Returned => posts[i].collage_path = None
               /\ CollagesOf(i) = {})
    /\ [][\A i \in Jobs :
            (/\ VideoPath(posts[i])
             /\ Head(posts[i].videos).fetch \in {"neterr", "streamerr"}
             /\ Finishes(i))
            => ~tempFile'.exists]_vars

\* C11 witness: a batch returned in which a video whose stream broke off
\* was requested, its post has no collage and no temporary file is left
C11_Witness ==
    /\ Returned
    /\ ~tempFile.exists
    /\ \E i \in Jobs : /\ VideoPath(posts[i])
                       /\ Head(posts[i].videos).fetch = "streamerr"
                       /\ job[i].fetched # {}
                       /\ posts[i].collage_path = None

\* C12: whenever download_video fails, be it on a network error or on a
\* body of zero bytes, the job gets None and, at the moment it has failed,
\* there is no file at the output path
C12_DownloadFailsCleanly ==
    [][\A i \in Jobs :
         (/\ VideoPath(posts[i])
          /\ Head(posts[i].videos).fetch \in {"neterr", "streamerr", "empty"}
          /\ Finishes(i))
         => /\ job'[i].ret = None
            /\ ~tempFile'.exists]_vars

\* C13: the job of an Image or Sidecar post with at least one URL, whose
\* collage can be saved, returns a collage path whatever fetches failed;
\* the tile of a failed fetch is the placeholder, at the position of its URL
C13_ImagePostNeverNull ==
    \A i \in Jobs :
        (ImagePath(posts[i]) /\ posts[i].saveOk /\ job[i].pc = "done")
        => /\ job[i].fut = "result"
           /\ job[i].ret # None
           /\ \A k \in DOMAIN posts[i].images :
                job[i].images[k] = IF posts[i].images[k].ok THEN k - 1 ELSE Placeholder
           /\ \E c \in CollagesOf(i) :
                /\ c.path = job[i].ret
                /\ \A t \in DOMAIN c.tiles :
                     c.tiles[t].src = IF posts[i].images[t].ok THEN t - 1 ELSE Placeholder

\* C13 witness: a finished image job with a failed and a successful fetch
\* whose collage shows the placeholder
C13_Witness ==
    \E i \in Jobs :
        /\ ImagePath(posts[i]) /\ job[i].pc = "done" /\ job[i].ret # None
        /\ \E k \in DOMAIN posts[i].images : ~posts[i].images[k].ok
        /\ \E k \in DOMAIN posts[i].images : posts[i].images[k].ok
        /\ \E c \in CollagesOf(i) : \E t \in DOMAIN c.tiles : c.tiles[t].src = Placeholder

\* C14: the job of a Video post with at least one video URL requests the
\* first video URL and no other URL; it returns a collage path exactly when
\* the frames it sampled are not empty (the collage being saved), and with
\* no frames it returns None and saves nothing
C14_VideoPost ==
    \A i \in Jobs :
        (VideoPath(posts[i]) /\ posts[i].saveOk)
        => /\ job[i].fetched \subseteq {<<"video", 0>>}
           /\ job[i].pc = "done" =>
                /\ job[i].fut = "result"
                /\ job[i].fetched = {<<"video", 0>>}
                /\ (job[i].ret # None) <=> (job[i].frames # <<>>)
                /\ job[i].frames = <<>> => (job[i].wrote = None /\ CollagesOf(i) = {})
                /\ job[i].ret # None =>
                     (job[i].wrote = job[i].ret /\ \E c \in CollagesOf(i) : c.path = job[i].ret)

\* C14 witness: the finished job of a post with two video URLs and a
\* thumbnail that requested the first video only and has a collage
C14_Witness ==
    \E i \in Jobs :
        /\ VideoPath(posts[i]) /\ Len(posts[i].videos) = 2 /\ posts[i].images # <<>>
        /\ job[i].pc = "done"
        /\ job[i].ret # None
        /\ job[i].fetched = {<<"video", 0>>}

\* C15: the job of a post that is neither a Video with a video URL nor an
\* Image or Sidecar with an image URL never requests a URL, never writes a
\* file and ends with None
C15_UnsupportedPost ==
    \A i \in Jobs :
        (~posts[i].faults /\ ~VideoPath(posts[i]) /\ ~ImagePath(posts[i]))
        => /\ job[i].pc \in {"new", "queued", "done"}
           /\ job[i].fetched = {}
           /\ job[i].wrote = None
           /\ CollagesOf(i) = {}
           /\ ~job[i].linked
           /\ i \notin tempFile.data
           /\ job[i].pc = "done" => (job[i].fut = "result" /\ job[i].ret = None)

\* C15 witness: the finished job of a Video post that has a thumbnail and
\* no video URL
C15_Witness ==
    \E i \in Jobs :
        /\ posts[i].type = "Video" /\ posts[i].videos = <<>> /\ posts[i].images # <<>>
        /\ ~posts[i].faults
        /\ job[i].pc = "done"

\* the grid table: columns and rows by the number of inputs
TableGrid(n) ==
    CASE n = 1 -> <<1, 1>>
      [] n = 2 -> <<2, 1>>
      [] n \in 3 .. 4 -> <<2, 2>>
      [] n \in 5 .. 6 -> <<3, 2>>
      [] n >= 7 -> <<3, 3>>

\* C16: the collage of a post with n images, 1 <= n <= 9, has the grid of
\* the table and a canvas of cols * 400 by rows * 400 + 150
C16_ImageGrid ==
    \A c \in collages :
        LET n == Len(posts[c.by].images)
        IN  (ImagePath(posts[c.by]) /\ n \in 1 .. 9)
            => /\ <<c.cols, c.rows>> = TableGrid(n)
               /\ c.width = TableGrid(n)[1] * 400
               /\ c.height = TableGrid(n)[2] * 400 + 150

\* C16 witness: the collages of five images (3 x 2, 1200 x 950)
C16_Witness ==
    \E c \in collages :
        /\ ImagePath(posts[c.by]) /\ Len(posts[c.by].images) = 5
        /\ c.cols = 3 /\ c.rows = 2 /\ c.width = 1200 /\ c.height = 950

\* a tile lies inside the image area of the collage, above the text band
InImageArea(tile, c) ==
    /\ tile.x >= 0 /\ tile.x + 400 <= c.width
    /\ tile.y >= 0 /\ tile.y + 400 <= c.height - 150

\* C17: the collage of a post with more than 9 images has exactly 9 tiles,
\* the first 9 images in input order, each inside the 3 x 3 grid
C17_FirstNinePlaced ==
    \A c \in collages :
        (ImagePath(posts[c.by]) /\ Len(posts[c.by].images) > 9)
        => /\ Len(c.tiles) = 9
           /\ c.cols = 3 /\ c.rows = 3
           /\ \A t \in DOMAIN c.tiles :
                /\ c.tiles[t].src = job[c.by].images[t]
                /\ c.tiles[t].src \in {t - 1, Placeholder}
                /\ c.tiles[t].x \in {0, 400, 800}
                /\ c.tiles[t].y \in {0, 400, 800}
                /\ InImageArea(c.tiles[t], c)

\* C17 witness: the collage of a post with more than 9 images
C17_Witness ==
    \E c \in collages :
        /\ ImagePath(posts[c.by]) /\ Len(posts[c.by].images) > 9
        /\ Len(c.tiles) = 9

\* the inputs of the collage job i composed: its frames or its images
Inputs(i) == IF VideoPath(posts[i]) THEN job[i].frames ELSE job[i].images

\* C18: every collage, of images or of frames, has at most n and at most 9
\* tiles for its n >= 1 inputs, the k-th tile is the k-th input, the tiles
\* fill pairwise distinct cells in row-major order and each lies inside
\* the image area
C18_Placement ==
    \A c \in collages :
        LET n == Len(Inputs(c.by))
        IN  /\ n >= 1
            /\ Len(c.tiles) <= n /\ Len(c.tiles) <= 9
            /\ \A t \in DOMAIN c.tiles :
                 /\ c.tiles[t].src = Inputs(c.by)[t]
                 /\ c.tiles[t].x = ((t - 1) % c.cols) * 400
                 /\ c.tiles[t].y = ((t - 1) \div c.cols) * 400
                 /\ InImageArea(c.tiles[t], c)
            /\ \A t, u \in DOMAIN c.tiles :
                 t # u => <<c.tiles[t].x, c.tiles[t].y>> # <<c.tiles[u].x, c.tiles[u].y>>

\* C18 witness: a collage of frames with fewer tiles than cells, the last
\* of them below the first row
C18_Witness ==
    \E c \in collages :
        /\ VideoPath(posts[c.by])
        /\ Len(c.tiles) \in 4 .. 8
        /\ c.tiles[Len(c.tiles)].y > 0

\* C19 as stated: a video collage of n frames has the grid and the canvas
\* the table gives for n
C19_VideoGridByCount ==
    \A c \in collages :
        LET n == Len(job[c.by].frames)
        IN  VideoPath(posts[c.by])
            => /\ <<c.cols, c.rows>> = TableGrid(n)
               /\ c.width = TableGrid(n)[1] * 400
               /\ c.height = TableGrid(n)[2] * 400 + 150

\* C19, amended: a video collage has the 3 x 3 grid and the canvas of
\* 1200 x 1350 whatever the number of frames, 1 to 9, it was built from
C19_VideoGridFixed ==
    \A c \in collages :
        VideoPath(posts[c.by])
        => /\ Len(job[c.by].frames) \in 1 .. 9
           /\ c.cols = 3 /\ c.rows = 3
           /\ c.width = 1200 /\ c.height = 1350

\* C19 witness: a video collage built from a single frame
C19_Witness ==
    \E c \in collages :
        /\ VideoPath(posts[c.by])
        /\ Len(job[c.by].frames) = 1
        /\ c.cols = 3 /\ c.rows = 3

\* C20: for a video of at least num_frames = 9 frames the frame indices
\* are 9, start at 0, end at total_frames - 1, increase strictly, and any
\* two gaps between consecutive indices differ by at most 1
C20_FrameIndices ==
    \A i \in Jobs :
        LET idx == job[i].indices
            total == Head(posts[i].videos).total
        IN  (VideoPath(posts[i]) /\ job[i].pc \in {"f_cleanup", "v_compose", "done"}
             /\ Head(posts[i].videos).fetch = "ok" /\ Head(posts[i].videos).opens
             /\ total >= 9)
            => /\ Len(idx) = 9
               /\ idx[1] = 0
               /\ idx[9] = total - 1
               /\ \A k \in 1 .. 8 : idx[k] < idx[k + 1]
               /\ \A k, h \in 1 .. 8 :
                    (idx[k + 1] - idx[k]) - (idx[h + 1] - idx[h]) \in {-1, 0, 1}

\* C20 witness: the indices of a video of 100 frames
C20_Witness ==
    \E i \in Jobs :
        /\ VideoPath(posts[i])
        /\ Head(posts[i].videos).total = 100
        /\ job[i].indices = <<0, 12, 24, 37, 49, 61, 74, 86, 99>>

\* the video of post i was downloaded, opened and sampled by job i
Sampled(i) ==
    /\ VideoPath(posts[i])
    /\ Head(posts[i].videos).fetch = "ok"
    /\ Head(posts[i].videos).opens
    /\ Head(posts[i].videos).total > 0
    /\ job[i].pc \in {"f_cleanup", "v_compose", "done"}
    /\ job[i].indices # <<>>

\* C21: for a video of fewer than 9 frames the indices requested are
\* 0 .. total_frames - 1, each once and none beyond, and when every frame
\* can be read exactly total_frames frames are returned
C21_ShortVideo ==
    \A i \in Jobs :
        LET v == Head(posts[i].videos)
        IN  (Sampled(i) /\ v.total < 9)
            => /\ Len(job[i].indices) = v.total
               /\ \A k \in 1 .. v.total : job[i].indices[k] = k - 1
               /\ Len(job[i].frames) <= v.total
               /\ (v.readable = 0 .. (v.total - 1) /\ v.raiseAt = -1)
                  => job[i].frames = [k \in 1 .. v.total |-> k - 1]

\* C21 witness: a video of 3 frames sampled into 3 frames
C21_Witness ==
    \E i \in Jobs :
        /\ Sampled(i)
        /\ Head(posts[i].videos).total = 3
        /\ job[i].frames = <<0, 1, 2>>

\* post p without its collage_path key
WithoutCollagePath(p) == [p EXCEPT !.has_collage_path = FALSE, !.collage_path = None]

\* C22: no step changes a field of a post other than collage_path, and
\* when the batch has returned every post has a collage_path, a path or None
C22_PostsUnchanged ==
    /\ [][/\ DOMAIN posts' = DOMAIN posts
          /\ \A i \in DOMAIN posts :
               WithoutCollagePath(posts'[i]) = WithoutCollagePath(posts[i])]_vars
    /\ [](Returned => \A i \in Jobs :
            /\ posts[i].has_collage_path
            /\ posts[i].collage_path \in
                 {None, PathJoin(output_dir, <<"post_">> \o Str(i + 1) \o <<"_collage.jpg">>),
                  PathJoin(output_dir, <<"post_">> \o Str(i + 1) \o <<"_video_collage.jpg">>)})

\* C22 witness: a returned batch with a collage attached to a post that
\* still has its caption and its media
C22_Witness ==
    /\ Returned
    /\ \E i \in Jobs : /\ posts[i].collage_path # None
                       /\ posts[i].caption # <<>>
                       /\ posts[i].images # <<>>

\* C23: a step that writes a slot of the results buffer or a post is a
\* step of the calling thread (no job moves in it); the posts are written
\* only when every job has finished and every future was collected, and a
\* step of a job writes neither
C23_SingleWriter ==
    [][/\ collage_paths' # collage_paths =>
            (job' = job /\ posts' = posts /\ mainpc = "run")
       /\ posts' # posts =>
            /\ job' = job
            /\ \A i \in Jobs : job[i].pc = "done"
            /\ futures = {}
            /\ mainpc = "run" /\ mainpc' = "returned"
       /\ (\E i \in Jobs : job'[i] # job[i] /\ job[i].pc \notin {"new"}) =>
            (posts' = posts /\ collage_paths' = collage_paths)]_vars

\* C23 witness: a batch of two posts run by two workers, collected out of
\* order, with collage_path attached to both
C23_Witness ==
    /\ Returned
    /\ NumPosts = 2 /\ max_workers = 2 /\ reordered
    /\ \A i \in Jobs : posts[i].has_collage_path

\* C24: when the batch returns, post i has a collage_path other than None
\* exactly when job i saved a collage, which then is the one file of job i
\* and lies at that path; a post with None has no collage file, and there
\* are as many collage files as posts with a path
C24_OneFilePerCollage ==
    Returned =>
        /\ \A i \in Jobs :
             /\ (posts[i].collage_path # None) <=> (job[i].wrote # None)
             /\ posts[i].collage_path # None =>
                  /\ job[i].wrote = posts[i].collage_path
                  /\ Cardinality(CollagesOf(i)) = 1
                  /\ \A c \in CollagesOf(i) : c.path = posts[i].collage_path
             /\ posts[i].collage_path = None => CollagesOf(i) = {}
        /\ Cardinality(collages) =
             Cardinality({i \in Jobs : posts[i].collage_path # None})
        /\ \A c \in collages : c.by \in Jobs

\* C24 witness: a returned batch with one post that has its collage file
\* and one post that has neither path nor file
C24_Witness ==
    /\ Returned
    /\ \E i, h \in Jobs :
         /\ posts[i].collage_path # None /\ CollagesOf(i) # {}
         /\ posts[h].collage_path = None /\ CollagesOf(h) = {}

\* C25 as stated: index k is k * (total_frames - 1) / (num_frames - 1)
\* rounded to the nearest integer (a tie may go either way)
C25_RoundedIndices ==
    \A i \in Jobs :
        LET idx == job[i].indices
            n == Len(job[i].indices)
            total == Head(posts[i].videos).total
        IN  (Sampled(i) /\ n >= 2)
            => \A k \in 1 .. n :
                 LET d == 2 * (k - 1) * (total - 1) - 2 * idx[k] * (n - 1)
                 IN  d <= n - 1 /\ - d <= n - 1

\* C25, amended: index k is k * (total_frames - 1) / (num_frames - 1)
\* rounded down
C25_TruncatedIndices ==
    \A i \in Jobs :
        LET idx == job[i].indices
            n == Len(job[i].indices)
            total == Head(posts[i].videos).total
        IN  (Sampled(i) /\ n >= 2)
            => \A k \in 1 .. n :
                 /\ idx[k] * (n - 1) <= (k - 1) * (total - 1)
                 /\ (k - 1) * (total - 1) < (idx[k] + 1) * (n - 1)

\* C25 witness: the third index of a video of 100 frames is 24, the fifth 49
C25_Witness ==
    \E i \in Jobs :
        /\ Sampled(i)
        /\ Head(posts[i].videos).total = 100
        /\ job[i].indices[3] = 24
        /\ job[i].indices[5] = 49

\* C26: a container that cannot be opened or has no frames gives no frames
\* and no exception; otherwise the frames returned are the requested
\* indices that can be read, in the order requested, which is increasing
C26_SamplerSkipsFailures ==
    \A i \in Jobs :
        LET v == Head(posts[i].videos)
        IN  (/\ VideoPath(posts[i]) /\ v.fetch = "ok" /\ v.raiseAt = -1
             /\ job[i].pc \in {"f_cleanup", "v_compose", "done"})
            => IF ~v.opens \/ v.total = 0
               THEN /\ job[i].frames = <<>>
                    /\ job[i].fut = "result"
               ELSE /\ job[i].frames =
                         SelectSeq(job[i].indices, LAMBDA x : x \in v.readable)
                    /\ \A k \in 1 .. (Len(job[i].frames) - 1) :
                         job[i].frames[k] < job[i].frames[k + 1]
                    /\ job[i].fut # "exception"

\* C26 witness: of the 9 indices of a video of 100 frames, with the even
\* positions readable, the 5 even ones are returned
C26_Witness ==
    \E i \in Jobs :
        /\ Sampled(i)
        /\ job[i].indices = <<0, 12, 24, 37, 49, 61, 74, 86, 99>>
        /\ job[i].frames = <<0, 12, 24, 74, 86>>

\* what download_image gives for URL k (1-based) of post i
ImageOf(i, k) == IF posts[i].images[k].ok THEN k - 1 ELSE Placeholder

\* C27: the images buffer of an image job has the length of the URL list
\* throughout; position k is empty until download k has finished and then
\* holds the image of URL k or the placeholder, whatever the order in which
\* the downloads finish
C27_ImagesInUrlOrder ==
    \A i \in Jobs :
        (ImagePath(posts[i]) /\ job[i].pc \in {"i_download", "done"})
        => /\ Len(job[i].images) = Len(posts[i].images)
           /\ Len(job[i].dl) = Len(posts[i].images)
           /\ \A k \in DOMAIN job[i].images :
                job[i].images[k] = IF job[i].dl[k] = "done" THEN ImageOf(i, k) ELSE NoImage
           /\ job[i].pc = "done" =>
                \A k \in DOMAIN job[i].dl : job[i].dl[k] = "done"

\* C27 witness: the second download of a job has stored its image while
\* the first one is still running
C27_Witness ==
    \E i \in Jobs :
        /\ ImagePath(posts[i]) /\ job[i].pc = "i_download"
        /\ Len(job[i].dl) >= 2
        /\ job[i].dl[1] = "running" /\ job[i].dl[2] = "done"
        /\ job[i].images[2] = ImageOf(i, 2)

\* the geometry of a collage
Geometry(c) ==
    [cols |-> c.cols, rows |-> c.rows, width |-> c.width, height |-> c.height,
     cells |-> [t \in DOMAIN c.tiles |-> <<c.tiles[t].x, c.tiles[t].y>>]]

\* the geometry the number n of image URLs determines
GeometryByCount(n) ==
    LET grid == TableGrid(n)
        placed == IF n < 9 THEN n ELSE 9
    IN  [cols |-> grid[1], rows |-> grid[2],
         width |-> grid[1] * 400, height |-> grid[2] * 400 + 150,
         cells |-> [t \in 1 .. placed |->
                      <<((t - 1) % grid[1]) * 400, ((t - 1) \div grid[1]) * 400>>]]

\* C28: the geometry of an image collage is that of the number of URLs of
\* its post, whatever the fetches gave and whatever the caption is
C28_GeometryByCount ==
    \A c \in collages :
        ImagePath(posts[c.by]) => Geometry(c) = GeometryByCount(Len(posts[c.by].images))

\* C28 witness: the collage of five URLs of which every fetch failed
C28_Witness ==
    \E c \in collages :
        /\ ImagePath(posts[c.by]) /\ Len(posts[c.by].images) = 5
        /\ \A t \in DOMAIN c.tiles : c.tiles[t].src = Placeholder
        /\ Len(c.tiles) = 5

\* the downloads of job i that are running
Downloading(i) == { k \in DOMAIN job[i].dl : job[i].dl[k] = "running" }

RECURSIVE SumDownloading(_)
\* the number of downloads running in the jobs of the set
SumDownloading(js) ==
    IF js = {} THEN 0
    ELSE LET i == CHOOSE x \in js : TRUE
         IN  Cardinality(Downloading(i)) + SumDownloading(js \ {i})

\* C29: a job with a queued download and fewer than max_workers downloads
\* running can start it however many jobs the pool is executing; a job
\* has at most max_workers downloads running, all jobs together at most
\* max_workers * max_workers; a collage of images exists only when every
\* download of its job has finished
C29_NestedPool ==
    /\ \A i \in Jobs :
         /\ Cardinality(Downloading(i)) <= max_workers
         /\ (/\ job[i].pc = "i_download"
             /\ \E k \in DOMAIN job[i].dl : job[i].dl[k] = "queued"
             /\ Cardinality(Downloading(i)) < max_workers)
            => ENABLED (\E k \in DOMAIN job[i].dl : DlStart(i, k))
         /\ job[i].pc = "i_download" =>
              \/ Downloading(i) # {}
              \/ ENABLED (\E k \in DOMAIN job[i].dl : DlStart(i, k))
              \/ ENABLED ICompose(i)
    /\ SumDownloading(Jobs) <= max_workers * max_workers
    /\ \A c \in collages :
         ImagePath(posts[c.by]) =>
            \A k \in DOMAIN job[c.by].dl : job[c.by].dl[k] = "done"

\* C29 witness: with max_workers = 1 the one worker of the pool executes
\* an image job and a download of that job is running
C29_Witness ==
    /\ max_workers = 1
    /\ \E i \in Jobs : /\ job[i].pc = "i_download"
                       /\ Cardinality(Executing) = 1
                       /\ Downloading(i) # {}

\* C30: the caption line of a collage, of images or of frames, is the
\* caption itself when that has 1 to 200 characters, its first 200
\* characters followed by "..." when it has more, and is not drawn when
\* the caption is empty
C30_CaptionLine ==
    \A c \in collages :
        LET caption == posts[c.by].caption
            line == c.caption_line
        IN  /\ Len(caption) = 0 => ~line.drawn
            /\ Len(caption) \in 1 .. 200 => (line.drawn /\ line.text = caption)
            /\ Len(caption) > 200 =>
                 /\ line.drawn
                 /\ Len(line.text) = 203
                 /\ \A k \in 1 .. 200 : line.text[k] = caption[k]
                 /\ \A k \in 201 .. 203 : line.text[k] = "."

\* C30 witness: the collage of a video whose caption has 201 characters
C30_Witness ==
    \E c \in collages :
        /\ VideoPath(posts[c.by])
        /\ Len(posts[c.by].caption) = 201
        /\ Len(c.caption_line.text) = 203
====
